---- MODULE Spec2Model ----
(***************************************************************************)
(* The degraded retrieval system of "KodeKloud/RAG Debugging/rag-debugging" *)
(* (rag_system.py and rag-evaluator.py): the fixed-step chunker, the        *)
(* noise-injecting search, the strict term-overlap evaluator and main;      *)
(* the pipeline demo KodeKloud/RAG/RAG_architecture/complete_rag_demo.py;   *)
(* the scripts check_persistence.py and save_vectordb.py of                 *)
(* KodeKloud/RAG/Vector_DB.                                                 *)
(*                                                                          *)
(* A Python str is a sequence of one-character strings, so that slicing,    *)
(* lower() and the substring test "in" are computed, not assumed.           *)
(***************************************************************************)
EXTENDS Integers, Sequences, FiniteSets, TLC

VARIABLES
    \* ---- chunk_text called on its own (SpecChunk)
    text,            \* the text argument of chunk_text
    chunk_size,      \* the chunk_size argument of chunk_text
    chunks,          \* the list chunk_text returned
    cpc,             \* "input": arguments chosen, "returned": chunk_text has returned
    \* ---- RAGEvaluator
    ecaller,         \* the evaluator method called: "none", "test_accuracy", "run_evaluation"
    epc,             \* "idle", "loop", "evaluated" (test_accuracy returned to run_evaluation), "done"
    n_results,       \* test_accuracy's n_results argument
    output_file,     \* run_evaluation's output_file argument (NoValue for None)
    ti,              \* the number of test cases the loop of test_accuracy has handled
    correct,         \* test_accuracy's correct
    results,         \* the list the last self.rag.search call returned
    found,           \* test_accuracy's found, as the last iteration left it
    search_calls,    \* the calls of self.rag.search made by the running test_accuracy
    accuracy,        \* the float test_accuracy returned (Unset before)
    eval_results,    \* the dictionary run_evaluation returned (Unset before)
    written,         \* what run_evaluation wrote to output_file (Unset before)
    \* ---- RAGSystem, main and the environment
    store,           \* the records of the persistent collection "aws_compliance"
    version,         \* the number of times the contents of the collection changed
    rng,             \* the state of numpy's global random generator in the running process
    docs,            \* the documents directory: [exists, files]
    op,              \* what is running: "none", "main" or "session" (a caller of the classes)
    mpc,             \* where it stands
    runs,            \* the runs of main started
    calls,           \* the session calls made
    fi,              \* process_documents: the files read
    cur_chunks,      \* process_documents: chunks of the file being processed
    ci,              \* process_documents: the chunks of that file already embedded
    all_chunks,      \* process_documents: all_chunks
    all_embeddings,  \* process_documents: all_embeddings
    all_ids,         \* process_documents: all_ids
    all_metadatas,   \* process_documents: all_metadatas
    last_search,     \* the last call of RAGSystem.search: caller, arguments, count, returned
    held_at_start,   \* main started on a collection that held every chunk of the documents
    events,          \* what the running operation has done so far, in order
    seen,            \* every search made: caller, query, n_results, version, results
    acc_seen,        \* every accuracy computed: caller, n_results, version, accuracy
    \* ---- complete_rag_demo.py
    dcoll,           \* the collection "techcorp_policies" of the process (Unset: not created)
    di,              \* the number of the demo the main loop is at (0 before the loop)
    dpc,             \* where the script stands
    dchunks,         \* run_complete_rag_pipeline's chunks
    dresults,        \* run_complete_rag_pipeline's search_results
    dlog,            \* what the script has printed or asked so far, in order
    \* ---- check_persistence.py and save_vectordb.py on ./chroma_db
    pdb,             \* the collection "techcorp_docs" of the persistent store (Unset: none)
    kpc,             \* where the running script stands ("idle": none is running)
    printed,         \* the counts the check script printed since the store last changed
    listed           \* the documents the last run of the check script printed

chunkVars == <<text, chunk_size, chunks, cpc>>
evalVars == <<ecaller, epc, n_results, output_file, ti, correct, results,
              found, search_calls, accuracy, eval_results, written>>

procVars == <<fi, cur_chunks, ci, all_chunks, all_embeddings, all_ids, all_metadatas>>
envVars == <<docs>>
ragVars == <<store, version, rng, envVars, op, mpc, runs, calls, procVars,
             last_search, held_at_start, events, seen, acc_seen>>

demoVars == <<dcoll, di, dpc, dchunks, dresults, dlog>>
checkVars == <<pdb, kpc, printed, listed>>

vars == <<chunkVars, evalVars, ragVars, demoVars, checkVars>>

\* None as an argument that is otherwise a string
NoValue == "None"
\* a variable that holds no value yet is <<>>, one that holds v is <<v>>
Unset == <<>>
Some(v) == <<v>>
Val(x) == x[1]

Min(a, b) == IF a < b THEN a ELSE b
Max(a, b) == IF a > b THEN a ELSE b

\* the sequences over S of length at most n
SeqsUpTo(S, n) == UNION {[1..k -> S] : k \in 0..n}

(***************************************************************************)
(* Python strings                                                          *)
(***************************************************************************)
\* text[a:b - 1]: the slice one character short
SliceAs(s, a, b) == SubSeq(s, a + 1, Min(b - 1, Len(s)))
\* text[a:b] for 0 <= a and 0 <= b: the indices are clamped to len(text).
Slice(s, a, b) == SubSeq(s, a + 1, Min(b, Len(s)))

\* c * n
Repeat(c, n) == [k \in 1..n |-> c]

UpperCase == <<"A", "B", "C", "D", "E", "F", "G", "H", "I", "J", "K", "L", "M",
               "N", "O", "P", "Q", "R", "S", "T", "U", "V", "W", "X", "Y", "Z">>
LowerCase == <<"a", "b", "c", "d", "e", "f", "g", "h", "i", "j", "k", "l", "m",
               "n", "o", "p", "q", "r", "s", "t", "u", "v", "w", "x", "y", "z">>

LowerOf == [c \in {UpperCase[k] : k \in 1..26} |->
               LowerCase[CHOOSE k \in 1..26 : UpperCase[k] = c]]
UpperOf == [c \in {LowerCase[k] : k \in 1..26} |->
               UpperCase[CHOOSE k \in 1..26 : LowerCase[k] = c]]

\* str.lower() and str.upper() on ASCII text
lower(s) == [k \in 1..Len(s) |-> IF s[k] \in DOMAIN LowerOf THEN LowerOf[s[k]] ELSE s[k]]
upper(s) == [k \in 1..Len(s) |-> IF s[k] \in DOMAIN UpperOf THEN UpperOf[s[k]] ELSE s[k]]

\* t in s: t occurs in s as a contiguous substring
In(t, s) == \E o \in 0..(Len(s) - Len(t)) : SubSeq(s, o + 1, o + Len(t)) = t

(***************************************************************************)
(* Python floats: IEEE 754 binary64, round to nearest, ties to even.       *)
(* A float is [sign, m, e]: sign * m * 2^e with m a sequence of 53 bits,    *)
(* most significant first and leading bit 1; zero is [sign |-> 1,           *)
(* m |-> <<>>, e |-> 0].  Mantissas are bit sequences because 2^53 exceeds  *)
(* the integers of the model checker.                                       *)
(***************************************************************************)
MantissaBits == 53

\* the w lowest bits of the natural n, most significant first (w <= 31)
ToBits(n, w) == [k \in 1..w |-> (n \div (2 ^ (w - k))) % 2]

StripZeros(b) ==
    IF \A k \in 1..Len(b) : b[k] = 0 THEN <<>>
    ELSE SubSeq(b, CHOOSE i \in 1..Len(b) : b[i] = 1 /\ \A j \in 1..(i - 1) : b[j] = 0,
                Len(b))

\* the bits of a natural below 2^31
BitsOfNat(n) == StripZeros(ToBits(n, 31))

RECURSIVE NatOfBits(_)
\* the natural a sequence of at most 30 bits stands for
NatOfBits(b) == IF b = <<>> THEN 0
                ELSE 2 * NatOfBits(SubSeq(b, 1, Len(b) - 1)) + b[Len(b)]

Zeros(n) == [k \in 1..n |-> 0]

\* Long arithmetic on bit sequences goes by blocks of 16 bits, so that every
\* intermediate value stays below 2^31.
RECURSIVE MulBlocks(_, _, _, _)
\* b[1..hi] * k + carry, from the least significant block up
MulBlocks(b, k, hi, carry) ==
    IF hi = 0 THEN BitsOfNat(carry)
    ELSE LET lo == Max(1, hi - 15)
             w  == hi - lo + 1
             v  == NatOfBits(SubSeq(b, lo, hi)) * k + carry
         IN  MulBlocks(b, k, lo - 1, v \div (2 ^ w)) \o ToBits(v % (2 ^ w), w)

\* the bits of b * k, for a natural k <= 100
MulBits(b, k) == StripZeros(MulBlocks(b, k, Len(b), 0))

RECURSIVE DivBlocks(_, _, _, _)
\* long division of b[lo..] by d with the remainder rem carried in, from the
\* most significant block down
DivBlocks(b, d, lo, rem) ==
    IF lo > Len(b) THEN [q |-> <<>>, r |-> rem]
    ELSE LET hi   == Min(Len(b), lo + 15)
             w    == hi - lo + 1
             v    == rem * (2 ^ w) + NatOfBits(SubSeq(b, lo, hi))
             rest == DivBlocks(b, d, hi + 1, v % d)
         IN  [q |-> ToBits(v \div d, w) \o rest.q, r |-> rest.r]

\* quotient and remainder of b by a natural d, 1 <= d <= 100
DivBits(b, d) ==
    LET qr == DivBlocks(b, d, 1, 0)
    IN  [q |-> StripZeros(qr.q), r |-> qr.r]

\* b + 1, one bit longer when b is all ones
IncBits(b) ==
    IF \A k \in 1..Len(b) : b[k] = 1 THEN <<1>> \o Zeros(Len(b))
    ELSE LET z == CHOOSE i \in 1..Len(b) : b[i] = 0 /\ \A j \in (i + 1)..Len(b) : b[j] = 1
         IN  SubSeq(b, 1, z - 1) \o <<1>> \o Zeros(Len(b) - z)

RECURSIVE SubBlocks(_, _, _, _)
\* a[1..hi] - b[1..hi] - borrow for sequences of one length, a >= b
SubBlocks(a, b, hi, borrow) ==
    IF hi = 0 THEN <<>>
    ELSE LET lo == Max(1, hi - 15)
             w  == hi - lo + 1
             v  == NatOfBits(SubSeq(a, lo, hi)) - NatOfBits(SubSeq(b, lo, hi)) - borrow
         IN  IF v < 0
             THEN SubBlocks(a, b, lo - 1, 1) \o ToBits(v + 2 ^ w, w)
             ELSE SubBlocks(a, b, lo - 1, 0) \o ToBits(v, w)

PadLeft(b, n) == Zeros(n - Len(b)) \o b

\* a < b for bit sequences without leading zeros
LessBits(a, b) ==
    \/ Len(a) < Len(b)
    \/ /\ Len(a) = Len(b)
       /\ \E i \in 1..Len(a) :
             /\ a[i] < b[i]
             /\ \A j \in 1..(i - 1) : a[j] = b[j]

\* a - b for a >= b
SubBits(a, b) == StripZeros(SubBlocks(a, PadLeft(b, Len(a)), Len(a), 0))

FZero == [sign |-> 1, m |-> <<>>, e |-> 0]

\* the float nearest to sign * bits * 2^e (plus a non-zero rest below the last
\* bit when sticky), ties to even
RoundFloat(sign, bits, e, sticky) ==
    LET b == StripZeros(bits)
        n == Len(b)
    IN  IF b = <<>> THEN FZero
        ELSE IF n <= MantissaBits
        THEN [sign |-> sign, m |-> b \o Zeros(MantissaBits - n), e |-> e - (MantissaBits - n)]
        ELSE LET keep  == SubSeq(b, 1, MantissaBits)
                 guard == b[MantissaBits + 1]
                 rest  == sticky \/ \E k \in (MantissaBits + 2)..n : b[k] = 1
                 up    == guard = 1 /\ (rest \/ keep[MantissaBits] = 1)
                 kept  == IF up THEN IncBits(keep) ELSE keep
             IN  [sign |-> sign,
                  m |-> SubSeq(kept, 1, MantissaBits),
                  e |-> e + (n - MantissaBits) + (Len(kept) - MantissaBits)]

\* float(n) for a small natural n
FloatOfNat(n) == RoundFloat(1, BitsOfNat(n), 0, FALSE)

\* x * k for a small natural k
FloatMul(x, k) == RoundFloat(x.sign, MulBits(x.m, k), x.e, FALSE)

\* x / d for a small natural d >= 1: eight more quotient bits than the
\* mantissa holds, the remainder as the sticky bit
FloatDiv(x, d) ==
    LET qr == DivBits(x.m \o Zeros(8), d)
    IN  RoundFloat(x.sign, qr.q, x.e - 8, qr.r # 0)

\* x - y for x, y >= 0
FloatSub(x, y) ==
    LET e  == Min(x.e, y.e)
        a  == StripZeros(x.m \o Zeros(x.e - e))
        b  == StripZeros(y.m \o Zeros(y.e - e))
    IN  IF LessBits(a, b) THEN RoundFloat(-1, SubBits(b, a), e, FALSE)
        ELSE RoundFloat(1, SubBits(a, b), e, FALSE)

\* int(x) for 0 <= x < 2^31: truncation
FloatToInt(x) ==
    IF x.m = <<>> THEN 0
    ELSE IF x.e >= 0 THEN NatOfBits(x.m) * (2 ^ x.e)
    ELSE NatOfBits(SubSeq(x.m, 1, Max(0, Len(x.m) + x.e)))

\* x < y for x, y >= 0
FloatLess(x, y) ==
    IF y.m = <<>> THEN FALSE
    ELSE IF x.m = <<>> THEN TRUE
    ELSE x.e < y.e \/ (x.e = y.e /\ LessBits(x.m, y.m))

(***************************************************************************)
(* RAGSystem.chunk_text                                                    *)
(***************************************************************************)
step == 100

RECURSIVE ChunkLoop(_, _, _, _, _)
\* for i in range(0, len(text), st): chunks.append(text[i:i + chunk_size])
ChunkLoop(t, size, st, i, acc) ==
    IF i >= Len(t) THEN acc
    ELSE ChunkLoop(t, size, st, i + st, Append(acc, Slice(t, i, i + size)))

\* the window moved by chunk_size instead of by step
chunk_textAs(t, size) == ChunkLoop(t, size, size, 0, <<>>)
chunk_text(t, size) == ChunkLoop(t, size, step, 0, <<>>)

(***************************************************************************)
(* RAGEvaluator                                                            *)
(***************************************************************************)
\* _define_test_cases: the 11 test cases (expected_terms is read by no code
\* and is left out; a query is only handed to search, so it is kept
\* as one value, while the terms are character sequences)
TestCases == <<
    \* 1: "What are the S3 encryption requirements?", must_have_all ['S3', 'encryption']
    [query |-> "What are the S3 encryption requirements?",
     must_have_all |-> <<<<"S", "3">>, <<"e", "n", "c", "r", "y", "p", "t", "i", "o", "n">>>>],
    \* 2: "What is policy AWS-POL-S3-001?", must_have_all ['AWS-POL-S3-001']
    [query |-> "What is policy AWS-POL-S3-001?",
     must_have_all |-> <<<<"A", "W", "S", "-", "P", "O", "L", "-", "S", "3", "-", "0", "0", "1">>>>],
    \* 3: "EC2 instance tagging requirements", must_have_all ['EC2', 'tag']
    [query |-> "EC2 instance tagging requirements",
     must_have_all |-> <<<<"E", "C", "2">>, <<"t", "a", "g">>>>],
    \* 4: "CloudTrail logging configuration", must_have_all ['CloudTrail', 'logging']
    [query |-> "CloudTrail logging configuration",
     must_have_all |-> <<<<"C", "l", "o", "u", "d", "T", "r", "a", "i", "l">>, <<"l", "o", "g", "g", "i", "n", "g">>>>],
    \* 5: "VPC security group rules", must_have_all ['VPC', 'security']
    [query |-> "VPC security group rules",
     must_have_all |-> <<<<"V", "P", "C">>, <<"s", "e", "c", "u", "r", "i", "t", "y">>>>],
    \* 6: "IAM password policy minimum length", must_have_all ['password', '14']
    [query |-> "IAM password policy minimum length",
     must_have_all |-> <<<<"p", "a", "s", "s", "w", "o", "r", "d">>, <<"1", "4">>>>],
    \* 7: "RDS encryption at rest requirements", must_have_all ['RDS', 'encryption']
    [query |-> "RDS encryption at rest requirements",
     must_have_all |-> <<<<"R", "D", "S">>, <<"e", "n", "c", "r", "y", "p", "t", "i", "o", "n">>>>],
    \* 8: "Lambda function timeout limits", must_have_all ['Lambda', 'timeout']
    [query |-> "Lambda function timeout limits",
     must_have_all |-> <<<<"L", "a", "m", "b", "d", "a">>, <<"t", "i", "m", "e", "o", "u", "t">>>>],
    \* 9: "EBS volume encryption policy", must_have_all ['EBS', 'encryption']
    [query |-> "EBS volume encryption policy",
     must_have_all |-> <<<<"E", "B", "S">>, <<"e", "n", "c", "r", "y", "p", "t", "i", "o", "n">>>>],
    \* 10: "CloudWatch log retention period", must_have_all ['CloudWatch', 'retention']
    [query |-> "CloudWatch log retention period",
     must_have_all |-> <<<<"C", "l", "o", "u", "d", "W", "a", "t", "c", "h">>, <<"r", "e", "t", "e", "n", "t", "i", "o", "n">>>>],
    \* 11: "AWS-POL-EC2-002 compliance details", must_have_all ['AWS-POL-EC2-002']
    [query |-> "AWS-POL-EC2-002 compliance details",
     must_have_all |-> <<<<"A", "W", "S", "-", "P", "O", "L", "-", "E", "C", "2", "-", "0", "0", "2">>>>]
>>

total == Len(TestCases)

\* "all" replaced by "any": one required term is enough
ResultMatchesAs(result, test) ==
    LET content == lower(result.content)
    IN  \E k \in 1..Len(test.must_have_all) : In(lower(test.must_have_all[k]), content)
\* all(term.lower() in content for term in test["must_have_all"])
ResultMatches(result, test) ==
    LET content == lower(result.content)
    IN  \A k \in 1..Len(test.must_have_all) : In(lower(test.must_have_all[k]), content)

RECURSIVE FoundLoop(_, _, _)
\* for result in results: if <all terms in result>: found = True; break
FoundLoop(res, test, k) ==
    IF k > Len(res) THEN FALSE
    ELSE IF ResultMatches(res[k], test) THEN TRUE
    ELSE FoundLoop(res, test, k + 1)

Found(res, test) == FoundLoop(res, test, 1)

\* accuracy with an integer division: (correct // total) * 100
AccuracyOfAs(c) == FloatMul(FloatOfNat(c \div total), 100)
\* accuracy = (correct / total) * 100
AccuracyOf(c) == FloatMul(FloatDiv(FloatOfNat(c), total), 100)

\* int(accuracy * len(self.test_cases) / 100)
PassedOf(acc) == FloatToInt(FloatDiv(FloatMul(acc, total), 100))

\* the dictionary run_evaluation builds
ResultsDict(acc) ==
    [accuracy    |-> acc,
     target      |-> 90,
     gap         |-> FloatSub(FloatOfNat(90), acc),
     total_tests |-> total,
     passed      |-> PassedOf(acc)]

EvalIdle ==
    /\ ecaller = "none"
    /\ epc = "idle"
    /\ n_results = 2
    /\ output_file = NoValue
    /\ ti = 0
    /\ correct = 0
    /\ results = <<>>
    /\ found = FALSE
    /\ search_calls = <<>>
    /\ accuracy = Unset
    /\ eval_results = Unset
    /\ written = Unset

\* test_accuracy(n_results=n) is entered: correct = 0
EnterTestAccuracy(n) ==
    /\ n_results' = n
    /\ ti' = 0
    /\ correct' = 0
    /\ results' = <<>>
    /\ found' = FALSE
    /\ search_calls' = <<>>
    /\ accuracy' = Unset
    /\ epc' = "loop"

\* evaluator.test_accuracy(n_results=n) called by a user of the class
CallTestAccuracy(n) ==
    /\ epc = "idle"
    /\ ecaller' = "test_accuracy"
    /\ EnterTestAccuracy(n)
    /\ UNCHANGED <<output_file, eval_results, written>>

\* evaluator.run_evaluation(output_file=out): calls self.test_accuracy()
CallRunEvaluation(out) ==
    /\ epc = "idle"
    /\ ecaller' = "run_evaluation"
    /\ output_file' = out
    /\ EnterTestAccuracy(2)
    /\ UNCHANGED <<eval_results, written>>

\* one iteration of "for test in self.test_cases", res being what
\* self.rag.search(test["query"], n_results=n_results) returned
\* (the local list results_detail is appended to and never read or
\* returned: it is not kept)
TestCaseStep(res) ==
    /\ epc = "loop"
    /\ ti < total
    /\ LET test == TestCases[ti + 1]
       IN  /\ results' = res
           /\ search_calls' = Append(search_calls,
                                     [query |-> test.query, n_results |-> n_results])
           /\ found' = Found(res, test)
           /\ correct' = IF found' THEN correct + 1 ELSE correct
    /\ ti' = ti + 1
    /\ UNCHANGED <<ecaller, epc, n_results, output_file, accuracy, eval_results, written>>

\* the loop is over: accuracy is computed and test_accuracy returns it
ComputeAccuracy ==
    /\ epc = "loop"
    /\ ti = total
    /\ accuracy' = Some(AccuracyOf(correct))
    /\ epc' = IF ecaller = "run_evaluation" THEN "evaluated" ELSE "done"
    /\ UNCHANGED <<ecaller, n_results, output_file, ti, correct, results,
                   found, search_calls, eval_results, written>>

\* run_evaluation after test_accuracy: the dictionary, then the file
FinishRunEvaluation ==
    /\ epc = "evaluated"
    /\ eval_results' = Some(ResultsDict(Val(accuracy)))
    /\ written' = IF output_file # NoValue
                  THEN Some([file |-> output_file, tag |-> "BASELINE:", value |-> Val(accuracy)])
                  ELSE written
    /\ epc' = "done"
    /\ UNCHANGED <<ecaller, n_results, output_file, ti, correct, results,
                   found, search_calls, accuracy>>

(***************************************************************************)
(* RAGSystem                                                               *)
(***************************************************************************)
DigitChars == <<"0", "1", "2", "3", "4", "5", "6", "7", "8", "9">>

RECURSIVE Str(_)
\* str(i) for i >= 0
Str(i) == IF i < 10 THEN <<DigitChars[i + 1]>>
          ELSE Str(i \div 10) \o <<DigitChars[(i % 10) + 1]>>

\* os.path.basename
Basename(p) ==
    LET slashes == {k \in 1..Len(p) : p[k] = "/"}
    IN  IF slashes = {} THEN p
        ELSE SubSeq(p, (CHOOSE k \in slashes : \A j \in slashes : j <= k) + 1, Len(p))

\* ---- the documents directory: what glob finds under docs_path, the *.md
\* files first, then the *.txt files
DocsDir == <<"/", "r", "o", "o", "t", "/", "r", "a", "g", "-", "d", "e", "b", "u", "g", "g", "i", "n", "g", "/", "a", "w", "s", "-", "c", "o", "m", "p", "l", "i", "a", "n", "c", "e", "-", "d", "o", "c", "s", "/">>

\* "AWS-POL-S3-001: all S3 buckets must enable encryption at res..." (226 characters)
S3PolicyText == <<
        "A", "W", "S", "-", "P", "O", "L", "-", "S", "3", "-", "0", "0", "1", ":", " ", "a",
        "l", "l", " ", "S", "3", " ", "b", "u", "c", "k", "e", "t", "s", " ", "m", "u", "s",
        "t", " ", "e", "n", "a", "b", "l", "e", " ", "e", "n", "c", "r", "y", "p", "t", "i",
        "o", "n", " ", "a", "t", " ", "r", "e", "s", "t", " ", "u", "s", "i", "n", "g", " ",
        "A", "E", "S", "-", "2", "5", "6", " ", "o", "r", " ", "K", "M", "S", " ", "k", "e",
        "y", "s", ".", " ", "C", "l", "o", "u", "d", "T", "r", "a", "i", "l", " ", "l", "o",
        "g", "g", "i", "n", "g", " ", "m", "u", "s", "t", " ", "b", "e", " ", "e", "n", "a",
        "b", "l", "e", "d", " ", "i", "n", " ", "e", "v", "e", "r", "y", " ", "r", "e", "g",
        "i", "o", "n", " ", "a", "n", "d", " ", "t", "h", "e", " ", "l", "o", "g", "s", " ",
        "k", "e", "p", "t", " ", "f", "o", "r", " ", "a", "u", "d", "i", "t", ".", " ", "I",
        "A", "M", " ", "p", "a", "s", "s", "w", "o", "r", "d", " ", "p", "o", "l", "i", "c",
        "y", ":", " ", "t", "h", "e", " ", "m", "i", "n", "i", "m", "u", "m", " ", "l", "e",
        "n", "g", "t", "h", " ", "i", "s", " ", "1", "4", " ", "c", "h", "a", "r", "a", "c",
        "t", "e", "r", "s", "." >>

\* "AWS-POL-EC2-002: every EC2 instance needs a tag for Environm..." (74 characters)
EC2PolicyText == <<
        "A", "W", "S", "-", "P", "O", "L", "-", "E", "C", "2", "-", "0", "0", "2", ":", " ",
        "e", "v", "e", "r", "y", " ", "E", "C", "2", " ", "i", "n", "s", "t", "a", "n", "c",
        "e", " ", "n", "e", "e", "d", "s", " ", "a", " ", "t", "a", "g", " ", "f", "o", "r",
        " ", "E", "n", "v", "i", "r", "o", "n", "m", "e", "n", "t", " ", "a", "n", "d", " ",
        "O", "w", "n", "e", "r", "." >>

S3File == [path |-> DocsDir \o <<"s", "3", ".", "m", "d">>, content |-> S3PolicyText]
EC2File == [path |-> DocsDir \o <<"e", "c", "2", ".", "t", "x", "t">>, content |-> EC2PolicyText]

\* two files whose names and contents hold the separator of the ID format:
\* notes.md has 109 characters, so that its chunk 1 is "x.md_0_ok", and
\* notes.md_1_x.md holds "ok"
NotesFile == [path |-> DocsDir \o <<"n", "o", "t", "e", "s", ".", "m", "d">>,
              content |-> Repeat("-", 100) \o <<"x", ".", "m", "d", "_", "0", "_", "o", "k">>]
ShadowFile == [path |-> DocsDir \o <<"n", "o", "t", "e", "s", ".", "m", "d", "_", "1", "_", "x", ".", "m", "d">>,
               content |-> <<"o", "k">>]

\* the directories main may find: none, an empty one, one file, two files
DocsChoices ==
    { [exists |-> FALSE, files |-> <<>>],
      [exists |-> TRUE,  files |-> <<>>],
      [exists |-> TRUE,  files |-> <<S3File>>],
      [exists |-> TRUE,  files |-> <<S3File, EC2File>>],
      [exists |-> TRUE,  files |-> <<NotesFile, ShadowFile>>] }

\* ---- the embedding model and the random generator
\* Embeddings are points of a circle of EmbMod positions and the distance of
\* two embeddings is their distance on the circle; the generator has RngMod
\* states.
EmbMod == 16
RngMod == 3
RngStates == 0..(RngMod - 1)

CountOf(t, c) == Cardinality({k \in 1..Len(t) : t[k] = c})

\* self.model.encode(chunk): a fixed function of the text
Encode(t) == (Len(t) + 3 * CountOf(t, " ") + 5 * CountOf(t, "e")) % EmbMod

\* the queries a session passes to search besides those of the test cases
SessionQueries == {"What are the S3 encryption requirements?", "How are EC2 instances tagged?"}

Queries == {TestCases[k].query : k \in 1..total} \cup SessionQueries

\* self.model.encode(query): a fixed function of the query
EncodeQuery(q) ==
    IF \E k \in 1..total : TestCases[k].query = q
    THEN (7 * (CHOOSE k \in 1..total : TestCases[k].query = q)) % EmbMod
    ELSE 9 % EmbMod

\* np.random.seed(s)
Seed(s) == s % RngMod
\* the draw np.random.normal makes in generator state r, and the state after
Normal(r) == ((r + 1) % 5) - 2
NextRng(r) == (2 * r + 1) % RngMod

Dist(a, b) == Min((a - b) % EmbMod, (b - a) % EmbMod)

\* collection.query(query_embeddings=[e], n_results=n): the n nearest
\* records, nearest first, insertion order breaking ties; fewer when the
\* collection holds fewer
CollectionQuery(st, e, n) ==
    LET before(i, j) == \/ Dist(st[i].embedding, e) < Dist(st[j].embedding, e)
                        \/ /\ Dist(st[i].embedding, e) = Dist(st[j].embedding, e)
                           /\ i < j
        rank(i) == Cardinality({j \in 1..Len(st) : before(j, i)})
        pick(k) == CHOOSE i \in 1..Len(st) : rank(i) = k - 1
    IN  [k \in 1..Min(n, Len(st)) |->
            [document |-> st[pick(k)].document,
             metadata |-> st[pick(k)].metadata,
             distance |-> Dist(st[pick(k)].embedding, e)]]

\* the formatted_results of search
Format(found_records) ==
    [k \in 1..Len(found_records) |->
        [content  |-> found_records[k].document,
         metadata |-> found_records[k].metadata,
         distance |-> found_records[k].distance]]

\* search without np.random.seed(42): the noise follows the generator state
SearchUnseeded(q, n, r, st) ==
    LET e == (EncodeQuery(q) + Normal(r)) % EmbMod
    IN  [results |-> Format(CollectionQuery(st, e, 1)), rng |-> NextRng(r)]
\* search passing its n_results on to collection.query
SearchAllResults(q, n, r, st) ==
    LET r0 == Seed(42)
        e  == (EncodeQuery(q) + Normal(r0)) % EmbMod
    IN  [results |-> Format(CollectionQuery(st, e, n)), rng |-> NextRng(r0)]
\* RAGSystem.search(query, n_results) in generator state r on collection st:
\* the list returned and the generator state left
Search(q, n, r, st) ==
    LET r0 == Seed(42)
        e  == (EncodeQuery(q) + Normal(r0)) % EmbMod
    IN  [results |-> Format(CollectionQuery(st, e, 1)), rng |-> NextRng(r0)]

\* hashlib.md5(f"{file_path}_{i}_{chunk[:50]}".encode()).hexdigest(), the
\* hash taken as injective: the string hashed stands for the digest
ChunkId(file_path, i, chunk) ==
    file_path \o <<"_">> \o Str(i) \o <<"_">> \o Slice(chunk, 0, 50)

\* collection.add(documents, embeddings, ids, metadatas): the IDs of a batch
\* must differ (DuplicateIDError otherwise); a record whose ID the
\* collection already holds is skipped
HasDuplicates(ids) == \E i, j \in 1..Len(ids) : i < j /\ ids[i] = ids[j]

RECURSIVE AddRecords(_, _, _)
AddRecords(st, batch, k) ==
    IF k > Len(batch) THEN st
    ELSE IF \E j \in 1..Len(st) : st[j].id = batch[k].id
    THEN AddRecords(st, batch, k + 1)
    ELSE AddRecords(Append(st, batch[k]), batch, k + 1)

CollectionAdd(st, documents, embeddings, ids, metadatas) ==
    AddRecords(st,
               [k \in 1..Len(ids) |->
                   [id |-> ids[k], document |-> documents[k],
                    embedding |-> embeddings[k], metadata |-> metadatas[k]]],
               1)

(***************************************************************************)
(* main of rag_system.py, process_documents and the callers of search      *)
(***************************************************************************)
ProcIdle ==
    /\ fi = 0
    /\ cur_chunks = <<>>
    /\ ci = 0
    /\ all_chunks = <<>>
    /\ all_embeddings = <<>>
    /\ all_ids = <<>>
    /\ all_metadatas = <<>>

RagFresh ==
    /\ store = <<>>
    /\ version = 0
    /\ op = "none"
    /\ mpc = "idle"
    /\ runs = 0
    /\ calls = 0
    /\ ProcIdle
    /\ last_search = Unset
    /\ held_at_start = FALSE
    /\ events = <<>>
    /\ seen = {}
    /\ acc_seen = {}

\* the system left alone
RagIdle ==
    /\ RagFresh
    /\ rng = 0
    /\ docs = [exists |-> FALSE, files |-> <<>>]

\* the IDs process_documents computes for the files of the directory
IdsOfFile(file) ==
    LET cs == chunk_text(file.content, 120)
    IN  {ChunkId(file.path, k - 1, cs[k]) : k \in 1..Len(cs)}

IdsOfDocs == UNION {IdsOfFile(docs.files[k]) : k \in 1..Len(docs.files)}

StoreIds(st) == {st[k].id : k \in 1..Len(st)}

\* the collection after the call, and whether its contents changed
SetStore(st) ==
    /\ store' = st
    /\ version' = IF st = store THEN version ELSE version + 1

\* a call of RAGSystem.search by who, with its bookkeeping
DoSearch(who, q, n) ==
    LET s == Search(q, n, rng, store)
    IN  /\ rng' = s.rng
        /\ last_search' = Some([caller |-> who, query |-> q, n_results |-> n,
                                count |-> Len(store), returned |-> s.results])
        /\ seen' = seen \cup {[caller |-> who, query |-> q, n_results |-> n,
                               version |-> version, results |-> s.results]}

\* ---- main
MaxRuns == 2
MaxCalls == 1
\* the n_results a caller passes are 1 and MaxNResults
MaxNResults == 3

\* python rag_system.py
StartMain ==
    /\ op = "none"
    /\ runs < MaxRuns
    /\ op' = "main"
    /\ mpc' = "import"
    /\ runs' = runs + 1
    /\ events' = <<>>
    /\ held_at_start' = (IdsOfDocs # {} /\ IdsOfDocs \subseteq StoreIds(store))
    /\ UNCHANGED <<store, version, rng, envVars, calls, procVars, last_search, seen, acc_seen>>
    /\ UNCHANGED <<chunkVars, evalVars, demoVars, checkVars>>

\* from rag_evaluator import RAGEvaluator, when no module of that name is
\* on the path (the file of this repository is named rag-evaluator.py):
\* ModuleNotFoundError ends main
MainImportFails ==
    /\ op = "main"
    /\ mpc = "import"
    /\ mpc' = "failed"
    /\ UNCHANGED <<store, version, rng, envVars, op, runs, calls, procVars,
                   last_search, held_at_start, events, seen, acc_seen>>
    /\ UNCHANGED <<chunkVars, evalVars, demoVars, checkVars>>

\* the import succeeded; rag = RAGSystem(): get_or_create_collection leaves
\* an existing collection as it is; then neither candidate docs_path
\* exists: main prints and returns
MainNoDocuments ==
    /\ op = "main"
    /\ mpc = "import"
    /\ ~docs.exists
    /\ op' = "none"
    /\ mpc' = "idle"
    /\ UNCHANGED <<store, version, rng, envVars, runs, calls, procVars,
                   last_search, held_at_start, events, seen, acc_seen>>
    /\ UNCHANGED <<chunkVars, evalVars, demoVars, checkVars>>

\* the import succeeded; rag = RAGSystem(); docs_path exists: rag.process_documents(docs_path) is
\* entered, the files are globbed and the four lists are empty
MainProcessDocuments ==
    /\ op = "main"
    /\ mpc = "import"
    /\ docs.exists
    /\ mpc' = "process"
    /\ fi' = 0
    /\ cur_chunks' = <<>>
    /\ ci' = 0
    /\ all_chunks' = <<>>
    /\ all_embeddings' = <<>>
    /\ all_ids' = <<>>
    /\ all_metadatas' = <<>>
    /\ UNCHANGED <<store, version, rng, envVars, op, runs, calls,
                   last_search, held_at_start, events, seen, acc_seen>>
    /\ UNCHANGED <<chunkVars, evalVars, demoVars, checkVars>>

\* for file_path in files: the file is read and chunked
ReadFile ==
    /\ mpc = "process"
    /\ ci = Len(cur_chunks)
    /\ fi < Len(docs.files)
    /\ cur_chunks' = chunk_text(docs.files[fi + 1].content, 120)
    /\ ci' = 0
    /\ fi' = fi + 1
    /\ events' = Append(events, <<"chunk", fi + 1>>)
    /\ UNCHANGED <<store, version, rng, envVars, op, mpc, runs, calls,
                   all_chunks, all_embeddings, all_ids, all_metadatas,
                   last_search, held_at_start, seen, acc_seen>>
    /\ UNCHANGED <<chunkVars, evalVars, demoVars, checkVars>>

\* for i, chunk in enumerate(chunks): ID, metadata, embedding, four appends
EmbedChunk ==
    /\ mpc = "process"
    /\ ci < Len(cur_chunks)
    /\ LET file_path == docs.files[fi].path
           chunk     == cur_chunks[ci + 1]
       IN  /\ all_chunks' = Append(all_chunks, chunk)
           /\ all_embeddings' = Append(all_embeddings, Encode(chunk))
           /\ all_ids' = Append(all_ids, ChunkId(file_path, ci, chunk))
           /\ all_metadatas' = Append(all_metadatas,
                                      [source |-> Basename(file_path), chunk_index |-> ci])
    /\ ci' = ci + 1
    /\ events' = Append(events, <<"embed", Len(all_chunks) + 1>>)
    /\ UNCHANGED <<store, version, rng, envVars, op, mpc, runs, calls, fi, cur_chunks,
                   last_search, held_at_start, seen, acc_seen>>
    /\ UNCHANGED <<chunkVars, evalVars, demoVars, checkVars>>

\* open(file_path) or f.read() raises (a file that cannot be read or is not
\* UTF-8): process_documents and main end with the error
ReadFileFails ==
    /\ mpc = "process"
    /\ ci = Len(cur_chunks)
    /\ fi < Len(docs.files)
    /\ mpc' = "failed"
    /\ events' = Append(events, <<"error", fi + 1>>)
    /\ UNCHANGED <<store, version, rng, envVars, op, runs, calls, procVars,
                   last_search, held_at_start, seen, acc_seen>>
    /\ UNCHANGED <<chunkVars, evalVars, demoVars, checkVars>>

\* self.model.encode(chunk) raises: process_documents and main end with the
\* error
EmbedChunkFails ==
    /\ mpc = "process"
    /\ ci < Len(cur_chunks)
    /\ mpc' = "failed"
    /\ events' = Append(events, <<"error", fi>>)
    /\ UNCHANGED <<store, version, rng, envVars, op, runs, calls, procVars,
                   last_search, held_at_start, seen, acc_seen>>
    /\ UNCHANGED <<chunkVars, evalVars, demoVars, checkVars>>

\* the store is written as soon as the chunks of one file are embedded
ReadyToAddEarly == ci = Len(cur_chunks) /\ fi >= 1 /\ all_chunks # <<>>
\* the store is written after every file has been handled
ReadyToAddAs == ci = Len(cur_chunks) /\ fi >= 1 /\ (fi < Len(docs.files) => all_ids # <<>>)
\* the for loop over the files is over
ReadyToAdd == ci = Len(cur_chunks) /\ fi = Len(docs.files)

\* if all_chunks: self.collection.add(...); process_documents returns
AddToStore ==
    /\ mpc = "process"
    /\ ReadyToAdd
    /\ IF all_chunks = <<>>
       THEN /\ mpc' = "processed"
            /\ UNCHANGED <<store, version, events>>
       ELSE IF HasDuplicates(all_ids)
       THEN /\ mpc' = "failed"
            /\ UNCHANGED <<store, version, events>>
       ELSE /\ SetStore(CollectionAdd(store, all_chunks, all_embeddings, all_ids, all_metadatas))
            /\ events' = Append(events, <<"add", Len(all_chunks)>>)
            /\ mpc' = IF fi = Len(docs.files) THEN "processed" ELSE "process"
    /\ UNCHANGED <<rng, envVars, op, runs, calls, procVars,
                   last_search, held_at_start, seen, acc_seen>>
    /\ UNCHANGED <<chunkVars, evalVars, demoVars, checkVars>>

\* evaluator = RAGEvaluator(rag); evaluator.run_evaluation(output_file=...)
MainRunEvaluation ==
    /\ op = "main"
    /\ mpc = "processed"
    /\ \E root_exists \in BOOLEAN :
          CallRunEvaluation(IF root_exists THEN "/root/rag-debugging/baseline_accuracy.txt"
                            ELSE "./baseline_accuracy.txt")
    /\ mpc' = "evaluate"
    /\ UNCHANGED <<store, version, rng, envVars, op, runs, calls, procVars,
                   last_search, held_at_start, events, seen, acc_seen>>
    /\ UNCHANGED <<chunkVars, demoVars, checkVars>>

\* ---- the evaluator on the RAGSystem
\* one iteration of test_accuracy: self.rag.search, then the check
EvaluateTestCase ==
    /\ mpc = "evaluate"
    /\ epc = "loop"
    /\ ti < total
    /\ DoSearch(ecaller, TestCases[ti + 1].query, n_results)
    /\ TestCaseStep(Search(TestCases[ti + 1].query, n_results, rng, store).results)
    /\ events' = Append(events, <<"search", ti + 1>>)
    /\ UNCHANGED <<store, version, envVars, op, mpc, runs, calls, procVars,
                   held_at_start, acc_seen>>
    /\ UNCHANGED <<chunkVars, demoVars, checkVars>>

EvaluateComputeAccuracy ==
    /\ mpc = "evaluate"
    /\ ComputeAccuracy
    /\ events' = Append(events, <<"accuracy", correct>>)
    /\ acc_seen' = acc_seen \cup {[caller |-> ecaller, n_results |-> n_results,
                                   version |-> version, accuracy |-> AccuracyOf(correct)]}
    /\ UNCHANGED <<store, version, rng, envVars, op, mpc, runs, calls, procVars,
                   last_search, held_at_start, seen>>
    /\ UNCHANGED <<chunkVars, demoVars, checkVars>>

EvaluateFinishRunEvaluation ==
    /\ mpc = "evaluate"
    /\ FinishRunEvaluation
    /\ events' = IF output_file # NoValue THEN Append(events, <<"write", 0>>) ELSE events
    /\ UNCHANGED <<store, version, rng, envVars, op, mpc, runs, calls, procVars,
                   last_search, held_at_start, seen, acc_seen>>
    /\ UNCHANGED <<chunkVars, demoVars, checkVars>>

\* the evaluator method has returned: main ends, a session goes on
Return ==
    /\ mpc = "evaluate"
    /\ epc = "done"
    /\ epc' = "idle"
    /\ op' = "none"
    /\ mpc' = "idle"
    /\ UNCHANGED <<ecaller, n_results, output_file, ti, correct, results, found,
                   search_calls, accuracy, eval_results, written>>
    /\ UNCHANGED <<store, version, rng, envVars, runs, calls, procVars,
                   last_search, held_at_start, events, seen, acc_seen>>
    /\ UNCHANGED <<chunkVars, demoVars, checkVars>>

\* ---- a session using the classes on the same persistent collection
SessionSearch ==
    /\ op = "none"
    /\ calls < MaxCalls
    /\ \E q \in SessionQueries, n \in {1, MaxNResults} : DoSearch("search", q, n)
    /\ calls' = calls + 1
    /\ UNCHANGED <<store, version, envVars, op, mpc, runs, procVars,
                   held_at_start, events, acc_seen>>
    /\ UNCHANGED <<chunkVars, evalVars, demoVars, checkVars>>

\* RAGEvaluator.test_specific_query(query, n_results): search, then print
SessionTestSpecificQuery ==
    /\ op = "none"
    /\ calls < MaxCalls
    /\ \E q \in SessionQueries, n \in {1, MaxNResults} : DoSearch("test_specific_query", q, n)
    /\ calls' = calls + 1
    /\ UNCHANGED <<store, version, envVars, op, mpc, runs, procVars,
                   held_at_start, events, acc_seen>>
    /\ UNCHANGED <<chunkVars, evalVars, demoVars, checkVars>>

\* RAGEvaluator.test_accuracy(n_results=n) called from a session
SessionTestAccuracy ==
    /\ op = "none"
    /\ calls < MaxCalls
    /\ \E n \in {1, MaxNResults} : CallTestAccuracy(n)
    /\ calls' = calls + 1
    /\ op' = "session"
    /\ mpc' = "evaluate"
    /\ events' = <<>>
    /\ UNCHANGED <<store, version, rng, envVars, runs, procVars,
                   last_search, held_at_start, seen, acc_seen>>
    /\ UNCHANGED <<chunkVars, demoVars, checkVars>>

(***************************************************************************)
(* complete_rag_demo.py: the complete RAG pipeline demo                    *)
(***************************************************************************)
\* ---- the sample policy documents of load_and_chunk_documents
\* policy_001, "Home Office Equipment Reimbursement": "Employees working from home may claim up..." (384 characters)
PolicyContent1 == <<
        "E", "m", "p", "l", "o", "y", "e", "e", "s", " ", "w", "o", "r", "k", "i", "n",
        "g", " ", "f", "r", "o", "m", " ", "h", "o", "m", "e", " ", "m", "a", "y", " ",
        "c", "l", "a", "i", "m", " ", "u", "p", " ", "t", "o", " ", "$", "5", "0", "0",
        " ", "p", "e", "r", " ", "y", "e", "a", "r", " ", "f", "o", "r", " ", "o", "f",
        "f", "i", "c", "e", " ", "e", "q", "u", "i", "p", "m", "e", "n", "t", " ", "i",
        "n", "c", "l", "u", "d", "i", "n", "g", " ", "d", "e", "s", "k", "s", ",", " ",
        "c", "h", "a", "i", "r", "s", ",", " ", "m", "o", "n", "i", "t", "o", "r", "s",
        ",", " ", "a", "n", "d", " ", "c", "o", "m", "p", "u", "t", "e", "r", " ", "a",
        "c", "c", "e", "s", "s", "o", "r", "i", "e", "s", ".", " ", "R", "e", "c", "e",
        "i", "p", "t", "s", " ", "m", "u", "s", "t", " ", "b", "e", " ", "s", "u", "b",
        "m", "i", "t", "t", "e", "d", " ", "w", "i", "t", "h", "i", "n", " ", "3", "0",
        " ", "d", "a", "y", "s", " ", "o", "f", " ", "p", "u", "r", "c", "h", "a", "s",
        "e", ".", " ", "T", "h", "i", "s", " ", "p", "o", "l", "i", "c", "y", " ", "a",
        "p", "p", "l", "i", "e", "s", " ", "t", "o", " ", "f", "u", "l", "l", "-", "t",
        "i", "m", "e", " ", "r", "e", "m", "o", "t", "e", " ", "w", "o", "r", "k", "e",
        "r", "s", " ", "o", "n", "l", "y", ".", " ", "T", "h", "e", " ", "e", "q", "u",
        "i", "p", "m", "e", "n", "t", " ", "m", "u", "s", "t", " ", "b", "e", " ", "u",
        "s", "e", "d", " ", "p", "r", "i", "m", "a", "r", "i", "l", "y", " ", "f", "o",
        "r", " ", "w", "o", "r", "k", " ", "p", "u", "r", "p", "o", "s", "e", "s", " ",
        "a", "n", "d", " ", "s", "h", "o", "u", "l", "d", " ", "b", "e", " ", "e", "r",
        "g", "o", "n", "o", "m", "i", "c", " ", "a", "n", "d", " ", "s", "u", "i", "t",
        "a", "b", "l", "e", " ", "f", "o", "r", " ", "a", " ", "p", "r", "o", "f", "e",
        "s", "s", "i", "o", "n", "a", "l", " ", "h", "o", "m", "e", " ", "o", "f", "f",
        "i", "c", "e", " ", "e", "n", "v", "i", "r", "o", "n", "m", "e", "n", "t", "." >>

\* policy_002, "Travel Expense Guidelines": "Business travel expenses are reimbursabl..." (351 characters)
PolicyContent2 == <<
        "B", "u", "s", "i", "n", "e", "s", "s", " ", "t", "r", "a", "v", "e", "l", " ",
        "e", "x", "p", "e", "n", "s", "e", "s", " ", "a", "r", "e", " ", "r", "e", "i",
        "m", "b", "u", "r", "s", "a", "b", "l", "e", " ", "w", "h", "e", "n", " ", "p",
        "r", "e", "-", "a", "p", "p", "r", "o", "v", "e", "d", " ", "b", "y", " ", "y",
        "o", "u", "r", " ", "m", "a", "n", "a", "g", "e", "r", ".", " ", "M", "e", "a",
        "l", "s", " ", "a", "r", "e", " ", "c", "o", "v", "e", "r", "e", "d", " ", "u",
        "p", " ", "t", "o", " ", "$", "5", "0", " ", "p", "e", "r", " ", "d", "a", "y",
        ",", " ", "h", "o", "t", "e", "l", " ", "s", "t", "a", "y", "s", " ", "u", "p",
        " ", "t", "o", " ", "$", "2", "0", "0", " ", "p", "e", "r", " ", "n", "i", "g",
        "h", "t", ".", " ", "A", "l", "l", " ", "r", "e", "c", "e", "i", "p", "t", "s",
        " ", "m", "u", "s", "t", " ", "b", "e", " ", "s", "u", "b", "m", "i", "t", "t",
        "e", "d", " ", "w", "i", "t", "h", "i", "n", " ", "1", "4", " ", "d", "a", "y",
        "s", " ", "o", "f", " ", "r", "e", "t", "u", "r", "n", ".", " ", "I", "n", "t",
        "e", "r", "n", "a", "t", "i", "o", "n", "a", "l", " ", "t", "r", "a", "v", "e",
        "l", " ", "r", "e", "q", "u", "i", "r", "e", "s", " ", "a", "d", "d", "i", "t",
        "i", "o", "n", "a", "l", " ", "a", "p", "p", "r", "o", "v", "a", "l", " ", "f",
        "r", "o", "m", " ", "t", "h", "e", " ", "d", "e", "p", "a", "r", "t", "m", "e",
        "n", "t", " ", "h", "e", "a", "d", ".", " ", "T", "r", "a", "v", "e", "l", " ",
        "i", "n", "s", "u", "r", "a", "n", "c", "e", " ", "i", "s", " ", "m", "a", "n",
        "d", "a", "t", "o", "r", "y", " ", "f", "o", "r", " ", "a", "l", "l", " ", "b",
        "u", "s", "i", "n", "e", "s", "s", " ", "t", "r", "i", "p", "s", " ", "e", "x",
        "c", "e", "e", "d", "i", "n", "g", " ", "7", " ", "d", "a", "y", "s", "." >>

\* policy_003, "Remote Work Furniture Policy": "Remote employees may purchase ergonomic ..." (354 characters)
PolicyContent3 == <<
        "R", "e", "m", "o", "t", "e", " ", "e", "m", "p", "l", "o", "y", "e", "e", "s",
        " ", "m", "a", "y", " ", "p", "u", "r", "c", "h", "a", "s", "e", " ", "e", "r",
        "g", "o", "n", "o", "m", "i", "c", " ", "f", "u", "r", "n", "i", "t", "u", "r",
        "e", " ", "f", "o", "r", " ", "t", "h", "e", "i", "r", " ", "h", "o", "m", "e",
        " ", "o", "f", "f", "i", "c", "e", " ", "s", "e", "t", "u", "p", ".", " ", "T",
        "h", "i", "s", " ", "i", "n", "c", "l", "u", "d", "e", "s", " ", "s", "t", "a",
        "n", "d", "i", "n", "g", " ", "d", "e", "s", "k", "s", ",", " ", "e", "r", "g",
        "o", "n", "o", "m", "i", "c", " ", "c", "h", "a", "i", "r", "s", ",", " ", "a",
        "n", "d", " ", "m", "o", "n", "i", "t", "o", "r", " ", "a", "r", "m", "s", ".",
        " ", "M", "a", "x", "i", "m", "u", "m", " ", "r", "e", "i", "m", "b", "u", "r",
        "s", "e", "m", "e", "n", "t", " ", "i", "s", " ", "$", "3", "0", "0", " ", "p",
        "e", "r", " ", "i", "t", "e", "m", " ", "w", "i", "t", "h", " ", "m", "a", "n",
        "a", "g", "e", "r", " ", "a", "p", "p", "r", "o", "v", "a", "l", " ", "r", "e",
        "q", "u", "i", "r", "e", "d", ".", " ", "A", "l", "l", " ", "f", "u", "r", "n",
        "i", "t", "u", "r", "e", " ", "m", "u", "s", "t", " ", "m", "e", "e", "t", " ",
        "e", "r", "g", "o", "n", "o", "m", "i", "c", " ", "s", "t", "a", "n", "d", "a",
        "r", "d", "s", " ", "a", "n", "d", " ", "b", "e", " ", "p", "u", "r", "c", "h",
        "a", "s", "e", "d", " ", "f", "r", "o", "m", " ", "a", "p", "p", "r", "o", "v",
        "e", "d", " ", "v", "e", "n", "d", "o", "r", "s", ".", " ", "R", "e", "c", "e",
        "i", "p", "t", "s", " ", "m", "u", "s", "t", " ", "b", "e", " ", "s", "u", "b",
        "m", "i", "t", "t", "e", "d", " ", "w", "i", "t", "h", "i", "n", " ", "4", "5",
        " ", "d", "a", "y", "s", " ", "o", "f", " ", "p", "u", "r", "c", "h", "a", "s",
        "e", "." >>

\* policy_004, "Equipment and Supplies Reimbursement": "Work-related equipment and supplies purc..." (352 characters)
PolicyContent4 == <<
        "W", "o", "r", "k", "-", "r", "e", "l", "a", "t", "e", "d", " ", "e", "q", "u",
        "i", "p", "m", "e", "n", "t", " ", "a", "n", "d", " ", "s", "u", "p", "p", "l",
        "i", "e", "s", " ", "p", "u", "r", "c", "h", "a", "s", "e", "d", " ", "f", "o",
        "r", " ", "h", "o", "m", "e", " ", "o", "f", "f", "i", "c", "e", " ", "u", "s",
        "e", " ", "a", "r", "e", " ", "e", "l", "i", "g", "i", "b", "l", "e", " ", "f",
        "o", "r", " ", "r", "e", "i", "m", "b", "u", "r", "s", "e", "m", "e", "n", "t",
        ".", " ", "T", "h", "i", "s", " ", "c", "o", "v", "e", "r", "s", " ", "l", "a",
        "p", "t", "o", "p", "s", ",", " ", "m", "o", "n", "i", "t", "o", "r", "s", ",",
        " ", "k", "e", "y", "b", "o", "a", "r", "d", "s", ",", " ", "m", "i", "c", "e",
        ",", " ", "a", "n", "d", " ", "o", "t", "h", "e", "r", " ", "c", "o", "m", "p",
        "u", "t", "e", "r", " ", "p", "e", "r", "i", "p", "h", "e", "r", "a", "l", "s",
        ".", " ", "S", "u", "b", "m", "i", "t", " ", "e", "x", "p", "e", "n", "s", "e",
        " ", "r", "e", "p", "o", "r", "t", "s", " ", "w", "i", "t", "h", " ", "r", "e",
        "c", "e", "i", "p", "t", "s", " ", "f", "o", "r", " ", "a", "p", "p", "r", "o",
        "v", "a", "l", ".", " ", "E", "q", "u", "i", "p", "m", "e", "n", "t", " ", "m",
        "u", "s", "t", " ", "b", "e", " ", "u", "s", "e", "d", " ", "f", "o", "r", " ",
        "w", "o", "r", "k", " ", "p", "u", "r", "p", "o", "s", "e", "s", " ", "a", "n",
        "d", " ", "s", "h", "o", "u", "l", "d", " ", "b", "e", " ", "c", "o", "m", "p",
        "a", "t", "i", "b", "l", "e", " ", "w", "i", "t", "h", " ", "c", "o", "m", "p",
        "a", "n", "y", " ", "s", "y", "s", "t", "e", "m", "s", ".", " ", "A", "n", "n",
        "u", "a", "l", " ", "l", "i", "m", "i", "t", " ", "i", "s", " ", "$", "1", "0",
        "0", "0", " ", "p", "e", "r", " ", "e", "m", "p", "l", "o", "y", "e", "e", "." >>

\* policy_005, "Vacation and PTO Policy": "Full-time employees accrue 15 days of pa..." (308 characters)
PolicyContent5 == <<
        "F", "u", "l", "l", "-", "t", "i", "m", "e", " ", "e", "m", "p", "l", "o", "y",
        "e", "e", "s", " ", "a", "c", "c", "r", "u", "e", " ", "1", "5", " ", "d", "a",
        "y", "s", " ", "o", "f", " ", "p", "a", "i", "d", " ", "t", "i", "m", "e", " ",
        "o", "f", "f", " ", "p", "e", "r", " ", "y", "e", "a", "r", ".", " ", "V", "a",
        "c", "a", "t", "i", "o", "n", " ", "r", "e", "q", "u", "e", "s", "t", "s", " ",
        "m", "u", "s", "t", " ", "b", "e", " ", "s", "u", "b", "m", "i", "t", "t", "e",
        "d", " ", "a", "t", " ", "l", "e", "a", "s", "t", " ", "2", " ", "w", "e", "e",
        "k", "s", " ", "i", "n", " ", "a", "d", "v", "a", "n", "c", "e", ".", " ", "U",
        "n", "u", "s", "e", "d", " ", "P", "T", "O", " ", "d", "o", "e", "s", " ", "n",
        "o", "t", " ", "r", "o", "l", "l", " ", "o", "v", "e", "r", " ", "t", "o", " ",
        "t", "h", "e", " ", "n", "e", "x", "t", " ", "y", "e", "a", "r", ".", " ", "E",
        "m", "e", "r", "g", "e", "n", "c", "y", " ", "l", "e", "a", "v", "e", " ", "c",
        "a", "n", " ", "b", "e", " ", "t", "a", "k", "e", "n", " ", "w", "i", "t", "h",
        " ", "m", "a", "n", "a", "g", "e", "r", " ", "a", "p", "p", "r", "o", "v", "a",
        "l", ".", " ", "S", "i", "c", "k", " ", "l", "e", "a", "v", "e", " ", "i", "s",
        " ", "s", "e", "p", "a", "r", "a", "t", "e", " ", "f", "r", "o", "m", " ", "v",
        "a", "c", "a", "t", "i", "o", "n", " ", "t", "i", "m", "e", " ", "a", "n", "d",
        " ", "d", "o", "e", "s", " ", "n", "o", "t", " ", "c", "o", "u", "n", "t", " ",
        "a", "g", "a", "i", "n", "s", "t", " ", "P", "T", "O", " ", "b", "a", "l", "a",
        "n", "c", "e", "." >>

policy_documents == <<
    [id |-> <<"p", "o", "l", "i", "c", "y", "_", "0", "0", "1">>,
     title |-> "Home Office Equipment Reimbursement",
     content |-> PolicyContent1,
     category |-> "reimbursement"],
    [id |-> <<"p", "o", "l", "i", "c", "y", "_", "0", "0", "2">>,
     title |-> "Travel Expense Guidelines",
     content |-> PolicyContent2,
     category |-> "travel"],
    [id |-> <<"p", "o", "l", "i", "c", "y", "_", "0", "0", "3">>,
     title |-> "Remote Work Furniture Policy",
     content |-> PolicyContent3,
     category |-> "reimbursement"],
    [id |-> <<"p", "o", "l", "i", "c", "y", "_", "0", "0", "4">>,
     title |-> "Equipment and Supplies Reimbursement",
     content |-> PolicyContent4,
     category |-> "reimbursement"],
    [id |-> <<"p", "o", "l", "i", "c", "y", "_", "0", "0", "5">>,
     title |-> "Vacation and PTO Policy",
     content |-> PolicyContent5,
     category |-> "benefits"] >>

\* ---- the test queries of the main loop
test_queries == <<
    \* "What's the reimbursement policy for home office equipment?"
    <<"W", "h", "a", "t", "'", "s", " ", "t", "h", "e", " ", "r", "e", "i", "m", "b",
        "u", "r", "s", "e", "m", "e", "n", "t", " ", "p", "o", "l", "i", "c", "y", " ",
        "f", "o", "r", " ", "h", "o", "m", "e", " ", "o", "f", "f", "i", "c", "e", " ",
        "e", "q", "u", "i", "p", "m", "e", "n", "t", "?" >>,
    \* "Can I get money back for buying a desk?"
    <<"C", "a", "n", " ", "I", " ", "g", "e", "t", " ", "m", "o", "n", "e", "y", " ",
        "b", "a", "c", "k", " ", "f", "o", "r", " ", "b", "u", "y", "i", "n", "g", " ",
        "a", " ", "d", "e", "s", "k", "?" >>,
    \* "How much can I claim for my home office?"
    <<"H", "o", "w", " ", "m", "u", "c", "h", " ", "c", "a", "n", " ", "I", " ", "c",
        "l", "a", "i", "m", " ", "f", "o", "r", " ", "m", "y", " ", "h", "o", "m", "e",
        " ", "o", "f", "f", "i", "c", "e", "?" >>,
    \* "What's the travel expense policy?"
    <<"W", "h", "a", "t", "'", "s", " ", "t", "h", "e", " ", "t", "r", "a", "v", "e",
        "l", " ", "e", "x", "p", "e", "n", "s", "e", " ", "p", "o", "l", "i", "c", "y",
        "?" >>,
    \* "How many vacation days do I get?"
    <<"H", "o", "w", " ", "m", "a", "n", "y", " ", "v", "a", "c", "a", "t", "i", "o",
        "n", " ", "d", "a", "y", "s", " ", "d", "o", " ", "I", " ", "g", "e", "t", "?" >> >>

\* str.strip() for the space character
strip(s) ==
    LET inked == {k \in 1..Len(s) : s[k] # " "}
    IN  IF inked = {} THEN <<>>
        ELSE SubSeq(s, CHOOSE k \in inked : \A j \in inked : k <= j,
                       CHOOSE k \in inked : \A j \in inked : j <= k)

\* ---- RecursiveCharacterTextSplitter(chunk_size=200, chunk_overlap=50,
\* separators=["\n\n", "\n", " ", ""]) on a text without line breaks
splitter_chunk_size == 200
splitter_chunk_overlap == 50

\* the text split at " ", every separator kept at the start of the piece
\* that follows it, empty pieces dropped
SplitAtSpaces(t) ==
    LET starts == {1} \cup {k \in 1..Len(t) : t[k] = " "}
        nth(n) == CHOOSE k \in starts : Cardinality({j \in starts : j < k}) = n - 1
        stop(n) == IF n = Cardinality(starts) THEN Len(t) ELSE nth(n + 1) - 1
        all == [n \in 1..Cardinality(starts) |-> SubSeq(t, nth(n), stop(n))]
    IN  SelectSeq(all, LAMBDA p : p # <<>>)

RECURSIVE JoinDocs(_)
\* "".join(docs).strip()
JoinDocs(ds) == IF ds = <<>> THEN <<>> ELSE Head(ds) \o JoinDocs(Tail(ds))

RECURSIVE Shrink(_, _, _)
\* the while loop of _merge_splits: pieces leave the front of current_doc
\* until at most chunk_overlap characters are left and the next piece fits
Shrink(current_doc, tot, ln) ==
    IF tot > splitter_chunk_overlap \/ (tot + ln > splitter_chunk_size /\ tot > 0)
    THEN Shrink(Tail(current_doc), tot - Len(Head(current_doc)), ln)
    ELSE [current_doc |-> current_doc, total |-> tot]

\* the docs of _merge_splits with current_doc joined, stripped and appended,
\* unless nothing is left of it
CloseDoc(m) ==
    LET joined == strip(JoinDocs(m.current_doc))
    IN  IF joined = <<>> THEN m.docs ELSE Append(m.docs, joined)

\* one iteration of the for loop of _merge_splits(splits, separator=""), on
\* the piece d: m holds docs, current_doc and total
MergeStep(m, d) ==
    LET full == m.total + Len(d) > splitter_chunk_size /\ m.current_doc # <<>>
        kept == IF full THEN Shrink(m.current_doc, m.total, Len(d))
                ELSE [current_doc |-> m.current_doc, total |-> m.total]
    IN  [docs |-> IF full THEN CloseDoc(m) ELSE m.docs,
         current_doc |-> Append(kept.current_doc, d),
         total |-> kept.total + Len(d)]

RECURSIVE MergeSplits(_, _, _)
\* _merge_splits from piece k on (the total is never negative)
MergeSplits(splits, k, m) ==
    IF k > Len(splits) THEN CloseDoc(m)
    ELSE LET n == MergeStep(m, splits[k])
         IN  IF n.total >= 0 THEN MergeSplits(splits, k + 1, n) ELSE n.docs

\* text_splitter.split_text(text)
split_text(t) ==
    IF Len(t) = 0 THEN <<>>
    ELSE MergeSplits(SplitAtSpaces(t), 1, [docs |-> <<>>, current_doc |-> <<>>, total |-> 0])

RECURSIVE ChunksOfDoc(_, _, _)
\* for i, chunk in enumerate(chunks): all_chunks.append({...})
ChunksOfDoc(doc, cs, i) ==
    IF i >= Len(cs) THEN <<>>
    ELSE <<[id |-> doc.id \o <<"_", "c", "h", "u", "n", "k", "_">> \o Str(i),
            title |-> doc.title,
            content |-> cs[i + 1],
            category |-> doc.category,
            source_doc |-> doc.id]>> \o ChunksOfDoc(doc, cs, i + 1)

RECURSIVE ChunkDocuments(_, _)
\* for doc in policy_documents: ...
ChunkDocuments(ds, k) ==
    IF k > Len(ds) THEN <<>>
    ELSE ChunksOfDoc(ds[k], split_text(ds[k].content), 0) \o ChunkDocuments(ds, k + 1)

\* load_and_chunk_documents()
load_and_chunk_documents == ChunkDocuments(policy_documents, 1)

\* ---- the collection of the in-memory client, shared by every
\* chromadb.Client() of the process
\* the nearest n records of the collection, nearest first
QueryRecords(st, e, n) ==
    LET before(i, j) == \/ Dist(st[i].embedding, e) < Dist(st[j].embedding, e)
                        \/ /\ Dist(st[i].embedding, e) = Dist(st[j].embedding, e)
                           /\ i < j
        rank(i) == Cardinality({j \in 1..Len(st) : before(j, i)})
    IN  [k \in 1..Min(n, Len(st)) |-> st[CHOOSE i \in 1..Len(st) : rank(i) = k - 1]]

\* the chunks are stored whatever the collection holds
ShouldStoreAs(coll) == TRUE
\* if collection.count() == 0
ShouldStore(coll) == Len(coll) = 0

\* process_user_query(query): the embedding of the cleaned query
process_user_query(query) == Encode(strip(lower(query)))

\* the embedding process_user_query returns for each of the test queries
QueryEmbeddings == [i \in 1..Len(test_queries) |-> process_user_query(test_queries[i])]

top_k == 3

\* search_vector_database(collection, query_embedding)
search_vector_database(coll, query_embedding) ==
    LET found_records == QueryRecords(coll, query_embedding, top_k)
    IN  [k \in 1..Len(found_records) |->
            [id |-> found_records[k].id,
             content |-> found_records[k].document,
             metadata |-> found_records[k].metadata,
             similarity |-> 1 - Dist(found_records[k].embedding, query_embedding)]]

DemoIdle ==
    /\ dcoll = Unset
    /\ di = 0
    /\ dpc = "idle"
    /\ dchunks = <<>>
    /\ dresults = <<>>
    /\ dlog = <<>>

\* an Exception has reached the except clause of the main loop: the script
\* goes on after the try statement
AfterExceptionAs == "aborted"
AfterException == "after"

\* for i, query in enumerate(test_queries, 1): the header of demo i, and
\* run_complete_rag_pipeline(query) is entered
StartDemo ==
    /\ dpc = "loop"
    /\ di < Len(test_queries)
    /\ di' = di + 1
    /\ dlog' = Append(dlog, <<"demo", di + 1>>)
    /\ dchunks' = <<>>
    /\ dresults' = <<>>
    /\ dpc' = "load"
    /\ UNCHANGED dcoll
    /\ UNCHANGED <<chunkVars, evalVars, ragVars, checkVars>>

\* Step 1: chunks = load_and_chunk_documents()
LoadAndChunk ==
    /\ dpc = "load"
    /\ dchunks' = load_and_chunk_documents
    /\ dpc' = "setup"
    /\ UNCHANGED <<dcoll, di, dresults, dlog>>
    /\ UNCHANGED <<chunkVars, evalVars, ragVars, checkVars>>

\* Step 2, setup_vector_database: create_collection, or get_collection when
\* create_collection raises because the collection exists
SetupCollection ==
    /\ dpc = "setup"
    /\ dcoll' = IF dcoll = Unset THEN Some(<<>>) ELSE dcoll
    /\ dpc' = "store"
    /\ UNCHANGED <<di, dchunks, dresults, dlog>>
    /\ UNCHANGED <<chunkVars, evalVars, ragVars, checkVars>>

\* Step 2, setup_vector_database: the chunks are added if the collection is
\* empty; the embeddings are generated by the collection
SetupStore ==
    /\ dpc = "store"
    /\ LET ids == [k \in 1..Len(dchunks) |-> dchunks[k].id]
           documents == [k \in 1..Len(dchunks) |-> dchunks[k].content]
           metadatas == [k \in 1..Len(dchunks) |->
                            [title |-> dchunks[k].title,
                             category |-> dchunks[k].category,
                             source |-> dchunks[k].source_doc]]
           embeddings == [k \in 1..Len(dchunks) |-> Encode(dchunks[k].content)]
       IN  IF ShouldStore(Val(dcoll))
           THEN IF HasDuplicates(ids)
                THEN /\ dlog' = Append(dlog, <<"error", di>>)
                     /\ dpc' = AfterException
                     /\ UNCHANGED dcoll
                ELSE /\ dcoll' = Some(CollectionAdd(Val(dcoll), documents, embeddings,
                                                    ids, metadatas))
                     /\ dlog' = Append(dlog, <<"stored", di>>)
                     /\ dpc' = "query"
           ELSE /\ dpc' = "query"
                /\ UNCHANGED <<dcoll, dlog>>
    /\ UNCHANGED <<di, dchunks, dresults>>
    /\ UNCHANGED <<chunkVars, evalVars, ragVars, checkVars>>

\* Step 2, setup_vector_database: collection.add raises (the embedding
\* function of the collection fails); nothing is stored, the except clause
\* of the main loop reports the error
SetupStoreRaises ==
    /\ dpc = "store"
    /\ ShouldStore(Val(dcoll))
    /\ dlog' = Append(dlog, <<"error", di>>)
    /\ dpc' = AfterException
    /\ UNCHANGED <<dcoll, di, dchunks, dresults>>
    /\ UNCHANGED <<chunkVars, evalVars, ragVars, checkVars>>

\* Steps 3 and 4: process_user_query(query), search_vector_database
ProcessAndSearch ==
    /\ dpc = "query"
    /\ dresults' = search_vector_database(Val(dcoll), QueryEmbeddings[di])
    /\ dpc' = "respond"
    /\ UNCHANGED <<dcoll, di, dchunks, dlog>>
    /\ UNCHANGED <<chunkVars, evalVars, ragVars, checkVars>>

\* Steps 3 and 4 raise (the embedding model cannot be loaded, the query
\* fails): the except clause of the main loop reports the error
ProcessAndSearchRaises ==
    /\ dpc = "query"
    /\ dlog' = Append(dlog, <<"error", di>>)
    /\ dpc' = AfterException
    /\ UNCHANGED <<dcoll, di, dchunks, dresults>>
    /\ UNCHANGED <<chunkVars, evalVars, ragVars, checkVars>>

\* Steps 5 and 6 and the final result: augment_prompt_with_context,
\* generate_response, print(response); run_complete_rag_pipeline returns
AugmentAndGenerate ==
    /\ dpc = "respond"
    /\ dlog' = Append(dlog, <<"result", di>>)
    /\ dpc' = "after"
    /\ UNCHANGED <<dcoll, di, dchunks, dresults>>
    /\ UNCHANGED <<chunkVars, evalVars, ragVars, checkVars>>

\* if i < len(test_queries): input("Press Enter to continue to next demo...")
\* and Enter is pressed
PressEnter ==
    /\ dpc = "after"
    /\ di < Len(test_queries)
    /\ dlog' = Append(dlog, <<"prompt", di>>)
    /\ dpc' = "loop"
    /\ UNCHANGED <<dcoll, di, dchunks, dresults>>
    /\ UNCHANGED <<chunkVars, evalVars, ragVars, checkVars>>

\* the loop is over: print("All demos completed!")
AllDemosCompleted ==
    /\ dpc = "after"
    /\ di = Len(test_queries)
    /\ dlog' = Append(dlog, <<"completed", di>>)
    /\ dpc' = "done"
    /\ UNCHANGED <<dcoll, di, dchunks, dresults>>
    /\ UNCHANGED <<chunkVars, evalVars, ragVars, checkVars>>

(***************************************************************************)
(* Vector_DB: check_persistence.py and save_vectordb.py on the persistent  *)
(* store ./chroma_db                                                       *)
(***************************************************************************)
\* the sample_docs of save_vectordb.py
sample_docs == <<"TechCorp allows remote work up to 3 days per week",
                 "Employees can bring pets to work on Fridays",
                 "Company provides health insurance and dental coverage",
                 "Remote workers must use approved equipment">>

\* ids=[f"doc_{i+1}" for i in range(len(sample_docs))]
SampleIds == [i \in 1..Len(sample_docs) |-> <<"d", "o", "c", "_">> \o Str(i)]

SampleRecords == [i \in 1..Len(sample_docs) |-> [id |-> SampleIds[i], document |-> sample_docs[i]]]

\* a document stored under the ID doc_1 by an earlier version of the script
OldRecord == [id |-> SampleIds[1], document |-> "TechCorp allows remote work up to 2 days per week"]

\* the states the store may be found in: no collection, an empty one, the
\* first k sample documents, an older document
InitialStores ==
    {Unset, Some(<<OldRecord>>)} \cup {Some(SubSeq(SampleRecords, 1, k)) : k \in 0..Len(sample_docs)}

\* client.get_or_create_collection(name): the store afterwards
GetOrCreateCollection(db) == IF db = Unset THEN Some(<<>>) ELSE db

RECURSIVE AddDocuments(_, _, _, _)
\* collection.add(documents, ids): a document whose ID the collection holds
\* is skipped
AddDocuments(coll, documents, ids, k) ==
    IF k > Len(ids) THEN coll
    ELSE IF \E j \in 1..Len(coll) : coll[j].id = ids[k]
    THEN AddDocuments(coll, documents, ids, k + 1)
    ELSE AddDocuments(Append(coll, [id |-> ids[k], document |-> documents[k]]),
                      documents, ids, k + 1)

CheckIdle ==
    /\ pdb = Unset
    /\ kpc = "idle"
    /\ printed = <<>>
    /\ listed = <<>>

MaxChecks == 3

\* python check_persistence.py: PersistentClient(path="./chroma_db") and
\* client.get_or_create_collection("techcorp_docs")
CheckConnect ==
    /\ kpc = "idle"
    /\ Len(printed) < MaxChecks
    /\ pdb' = GetOrCreateCollection(pdb)
    /\ kpc' = "check_connected"
    /\ listed' = <<>>
    /\ UNCHANGED printed
    /\ UNCHANGED <<chunkVars, evalVars, ragVars, demoVars>>

\* print("Document count:", collection.count())
CheckPrintCount ==
    /\ kpc = "check_connected"
    /\ printed' = Append(printed, Len(Val(pdb)))
    /\ kpc' = "check_counted"
    /\ UNCHANGED <<pdb, listed>>
    /\ UNCHANGED <<chunkVars, evalVars, ragVars, demoVars>>

\* results = collection.get(); every document is printed; the script ends
CheckPrintDocuments ==
    /\ kpc = "check_counted"
    /\ listed' = [k \in 1..Len(Val(pdb)) |-> Val(pdb)[k].document]
    /\ kpc' = "idle"
    /\ UNCHANGED <<pdb, printed>>
    /\ UNCHANGED <<chunkVars, evalVars, ragVars, demoVars>>

\* python save_vectordb.py: PersistentClient(path="./chroma_db") and
\* client.get_or_create_collection("techcorp_docs")
SaveConnect ==
    /\ kpc = "idle"
    /\ pdb' = GetOrCreateCollection(pdb)
    /\ kpc' = "save_connected"
    /\ UNCHANGED <<printed, listed>>
    /\ UNCHANGED <<chunkVars, evalVars, ragVars, demoVars>>

\* collection.add(documents=sample_docs, ids=[...])
SaveAdd ==
    /\ kpc = "save_connected"
    /\ pdb' = Some(AddDocuments(Val(pdb), sample_docs, SampleIds, 1))
    /\ printed' = IF pdb' = pdb THEN printed ELSE <<>>
    /\ kpc' = "save_added"
    /\ UNCHANGED listed
    /\ UNCHANGED <<chunkVars, evalVars, ragVars, demoVars>>

\* vectordb_backup.json and vectordb_saved.txt are written; the script ends
SaveWriteFiles ==
    /\ kpc = "save_added"
    /\ kpc' = "idle"
    /\ UNCHANGED <<pdb, printed, listed>>
    /\ UNCHANGED <<chunkVars, evalVars, ragVars, demoVars>>
(***************************************************************************)
(* SpecChunk: chunk_text applied to bounded inputs                         *)
(***************************************************************************)
MaxTextLen == 230
TextAlphabet == <<"a", "b", " ", "S", "3">>
TextPeriods == {3, 7}
ChunkSizes == {1, 50, 99, 100, 101, 120, 150, 201, 250}

\* a text of n characters whose characters vary with the position
TextOf(n, p) == [k \in 1..n |-> TextAlphabet[((k * p + k \div 11) % Len(TextAlphabet)) + 1]]

ChunkIdle ==
    /\ text = <<>>
    /\ chunk_size = 120
    /\ chunks = <<>>
    /\ cpc = "input"

ChunkInit ==
    /\ EvalIdle
    /\ RagIdle
    /\ DemoIdle
    /\ CheckIdle
    /\ text \in {TextOf(n, p) : n \in 0..MaxTextLen, p \in TextPeriods}
    /\ chunk_size \in ChunkSizes
    /\ chunks = <<>>
    /\ cpc = "input"

CallChunkText ==
    /\ cpc = "input"
    /\ chunks' = chunk_text(text, chunk_size)
    /\ cpc' = "returned"
    /\ UNCHANGED <<text, chunk_size>>
    /\ UNCHANGED <<evalVars, ragVars, demoVars, checkVars>>

\* the caller passes another chunk_size for the same text
NextChunkCall ==
    /\ cpc = "returned"
    /\ \E size \in ChunkSizes :
          /\ size # chunk_size
          /\ chunk_size' = size
    /\ chunks' = <<>>
    /\ cpc' = "input"
    /\ UNCHANGED text
    /\ UNCHANGED <<evalVars, ragVars, demoVars, checkVars>>

ChunkNext == CallChunkText \/ NextChunkCall

SpecChunk == ChunkInit /\ [][ChunkNext]_vars

(***************************************************************************)
(* SpecEval: the evaluator over a rag_system whose search may return any   *)
(* list of results (RAGEvaluator takes the system as a constructor         *)
(* argument and only calls its search)                                     *)
(***************************************************************************)
MaxResults == 2

\* contents a result may have for a test case: its first term alone, its
\* last term alone in another case (a one-term test: the term cut short),
\* and all its terms in another case
StubContents(test) ==
    LET T     == test.must_have_all
        first == T[1]
        last  == T[Len(T)]
    IN  { <<"x">> \o first \o <<"y">>,
          IF Len(T) = 1 THEN upper(SubSeq(last, 1, Len(last) - 1)) ELSE upper(last),
          lower(first) \o <<" ">> \o upper(last) }

StubResults(test) ==
    SeqsUpTo({[content |-> c, metadata |-> [source |-> "stub"], distance |-> 0] :
                 c \in StubContents(test)}, MaxResults)

\* the lists search may return, per test case
StubResultsOf == [i \in 1..total |-> StubResults(TestCases[i])]

EvalInit ==
    /\ ChunkIdle
    /\ RagIdle
    /\ DemoIdle
    /\ CheckIdle
    /\ EvalIdle

EvalTestAccuracy ==
    /\ \E n \in {1, MaxNResults} : CallTestAccuracy(n)
    /\ UNCHANGED <<chunkVars, ragVars, demoVars, checkVars>>

EvalRunEvaluation ==
    /\ \E out \in {NoValue, "baseline_accuracy.txt"} : CallRunEvaluation(out)
    /\ UNCHANGED <<chunkVars, ragVars, demoVars, checkVars>>

EvalTestCase ==
    /\ epc = "loop"
    /\ ti < total
    /\ \E res \in StubResultsOf[ti + 1] : TestCaseStep(res)
    /\ UNCHANGED <<chunkVars, ragVars, demoVars, checkVars>>

EvalComputeAccuracy ==
    /\ ComputeAccuracy
    /\ UNCHANGED <<chunkVars, ragVars, demoVars, checkVars>>

EvalFinishRunEvaluation ==
    /\ FinishRunEvaluation
    /\ UNCHANGED <<chunkVars, ragVars, demoVars, checkVars>>

EvalNext ==
    \/ EvalTestAccuracy
    \/ EvalRunEvaluation
    \/ EvalTestCase
    \/ EvalComputeAccuracy
    \/ EvalFinishRunEvaluation

SpecEval == EvalInit /\ [][EvalNext]_vars


(***************************************************************************)
(* SpecDemo: one run of complete_rag_demo.py                               *)
(***************************************************************************)
DemoInit ==
    /\ ChunkIdle
    /\ EvalIdle
    /\ RagIdle
    /\ CheckIdle
    /\ dcoll = Unset
    /\ di = 0
    /\ dpc = "loop"
    /\ dchunks = <<>>
    /\ dresults = <<>>
    /\ dlog = <<>>

DemoNext ==
    \/ StartDemo
    \/ LoadAndChunk
    \/ SetupCollection
    \/ SetupStore
    \/ SetupStoreRaises
    \/ ProcessAndSearch
    \/ ProcessAndSearchRaises
    \/ AugmentAndGenerate
    \/ PressEnter
    \/ AllDemosCompleted

\* the script keeps running: every step is taken once it can be, and Enter
\* is pressed at every prompt
SpecDemo == DemoInit /\ [][DemoNext]_vars /\ WF_vars(DemoNext)

(***************************************************************************)
(* SpecCheck: runs of check_persistence.py and save_vectordb.py            *)
(***************************************************************************)
CheckInit ==
    /\ ChunkIdle
    /\ EvalIdle
    /\ RagIdle
    /\ DemoIdle
    /\ pdb \in InitialStores
    /\ kpc = "idle"
    /\ printed = <<>>
    /\ listed = <<>>

CheckNext ==
    \/ CheckConnect
    \/ CheckPrintCount
    \/ CheckPrintDocuments
    \/ SaveConnect
    \/ SaveAdd
    \/ SaveWriteFiles

SpecCheck == CheckInit /\ [][CheckNext]_vars
(***************************************************************************)
(* Spec: runs of main and session calls on one persistent collection       *)
(***************************************************************************)
Init ==
    /\ ChunkIdle
    /\ EvalIdle
    /\ RagFresh
    /\ DemoIdle
    /\ CheckIdle
    /\ rng \in RngStates
    /\ docs \in DocsChoices

Next ==
    \/ StartMain
    \/ MainImportFails
    \/ MainNoDocuments
    \/ MainProcessDocuments
    \/ ReadFile
    \/ EmbedChunk
    \/ ReadFileFails
    \/ EmbedChunkFails
    \/ AddToStore
    \/ MainRunEvaluation
    \/ EvaluateTestCase
    \/ EvaluateComputeAccuracy
    \/ EvaluateFinishRunEvaluation
    \/ Return
    \/ SessionSearch
    \/ SessionTestSpecificQuery
    \/ SessionTestAccuracy

Spec == Init /\ [][Next]_vars

(***************************************************************************)
(* Claims about chunk_text                                                 *)
(***************************************************************************)
CeilDiv(a, b) == (a + b - 1) \div b

\* C1: chunk_text is a fixed-step substring chunker: for chunk_size >= 1 the
\* k-th chunk is text[100k : 100k + chunk_size], there are ceil(len(text)/100)
\* chunks, each chunk is non-empty and at most chunk_size long, and the empty
\* text yields no chunks.
C1_FixedStepChunker ==
    (cpc = "returned" /\ chunk_size >= 1) =>
        /\ Len(chunks) = CeilDiv(Len(text), 100)
        /\ \A k \in 0..(Len(chunks) - 1) :
              LET c == chunks[k + 1] IN
              /\ Len(c) = Min(chunk_size, Len(text) - 100 * k)
              /\ \A j \in 1..Len(c) : c[j] = text[100 * k + j]
              /\ Len(c) >= 1
              /\ Len(c) <= chunk_size
        /\ (text = <<>> => chunks = <<>>)

C1_Witness ==
    /\ cpc = "returned"
    /\ chunk_size = 120
    /\ Len(text) = 230
    /\ Len(chunks) = 3
    /\ Len(chunks[2]) = 120
    /\ Len(chunks[3]) = 30

\* C6 as stated: every chunk except the last one has exactly chunk_size
\* characters.
C6_AllButLastFull ==
    cpc = "returned" =>
        \A k \in 1..(Len(chunks) - 1) : Len(chunks[k]) = chunk_size

\* C6 amended: every chunk that ends inside the text (100k + chunk_size <=
\* len(text)) has exactly chunk_size characters; the chunks that can be
\* shorter are the trailing ones that start within chunk_size of the end:
\* only the last one when chunk_size <= 100, the last two when
\* chunk_size <= 200 (the default 120).
C6_FullUnlessCutByEnd ==
    cpc = "returned" =>
        /\ \A k \in 0..(Len(chunks) - 1) :
              (100 * k + chunk_size <= Len(text)) => Len(chunks[k + 1]) = chunk_size
        /\ chunk_size <= 100 =>
              \A k \in 1..(Len(chunks) - 1) : Len(chunks[k]) = chunk_size
        /\ chunk_size <= 200 =>
              \A k \in 1..(Len(chunks) - 2) : Len(chunks[k]) = chunk_size

C6_Witness ==
    /\ cpc = "returned"
    /\ chunk_size = 120
    /\ Len(chunks) = 3
    /\ Len(chunks[1]) = 120
    /\ Len(chunks[2]) < 120
    /\ Len(chunks[3]) < 120
(***************************************************************************)
(* Claims about RAGEvaluator                                               *)
(***************************************************************************)
\* c and d are the same character up to case
SameLetter(c, d) ==
    \/ c = d
    \/ c \in DOMAIN LowerOf /\ LowerOf[c] = d
    \/ d \in DOMAIN LowerOf /\ LowerOf[d] = c

\* t occurs in s as a substring, case ignored
OccursIgnoringCase(t, s) ==
    \E o \in 0..(Len(s) - Len(t)) : \A j \in 1..Len(t) : SameLetter(s[o + j], t[j])

\* one single result of res holds every required term of the test case
OneResultHasAllTerms(res, test) ==
    \E k \in 1..Len(res) :
        \A j \in 1..Len(test.must_have_all) :
            OccursIgnoringCase(test.must_have_all[j], res[k].content)

\* every required term is held by some result of res
TermsSpreadOverResults(res, test) ==
    \A j \in 1..Len(test.must_have_all) :
        \E k \in 1..Len(res) :
            OccursIgnoringCase(test.must_have_all[j], res[k].content)

\* C2: test_accuracy counts a test case as passed if and only if one single
\* result returned for its query contains, case ignored, every term of
\* must_have_all; terms spread over different results do not make it pass.
C2_PassIffOneResultHasAllTerms ==
    [][(epc = "loop" /\ ti' = ti + 1) =>
          LET test == TestCases[ti']
          IN  /\ found' = OneResultHasAllTerms(results', test)
              /\ correct' = correct + (IF OneResultHasAllTerms(results', test) THEN 1 ELSE 0)
      ]_vars

C2_Witness ==
    /\ epc = "loop"
    /\ ti > 0
    /\ Len(TestCases[ti].must_have_all) = 2
    /\ Len(results) = 2
    /\ TermsSpreadOverResults(results, TestCases[ti])
    /\ ~OneResultHasAllTerms(results, TestCases[ti])
    /\ ~found
    /\ correct = 0

\* C7: test_accuracy returns the percentage 100 * passed / total: it lies in
\* 0..100, its integer part is that of the exact percentage, it is 0 when no
\* search returned a result, it is 100 only when all 11 test cases passed,
\* the passed cases never exceed the test cases, and search is called once
\* per test case, in the order of the test cases.
C7_AccuracyIsPercentage ==
    /\ [](/\ correct <= ti
          /\ ti <= total
          /\ total = 11
          /\ epc = "loop" => Len(search_calls) = ti
          /\ \A k \in 1..Len(search_calls) :
                /\ search_calls[k].query = TestCases[k].query
                /\ search_calls[k].n_results = n_results
          /\ accuracy # Unset =>
                /\ Len(search_calls) = total
                /\ Val(accuracy).sign = 1
                /\ ~FloatLess(FloatOfNat(100), Val(accuracy))
                /\ FloatToInt(Val(accuracy)) = (100 * correct) \div total
                /\ (Val(accuracy) = FloatOfNat(100)) <=> (correct = total)
                /\ (Val(accuracy) = FZero) <=> (correct = 0))
    /\ [][(epc = "loop" /\ ti' = ti + 1 /\ results' = <<>>) => correct' = correct]_vars

C7_Witness ==
    /\ ecaller = "test_accuracy"
    /\ epc = "done"
    /\ correct = 4
    /\ FloatToInt(Val(accuracy)) = 36
    /\ Len(search_calls) = 11

\* C8: the dictionary run_evaluation returns is consistent with the
\* evaluation: 'passed' is the number of passed test cases, 'total_tests' is
\* 11, 'target' is 90 and 'gap' is 90 minus 'accuracy'.
C8_ResultsConsistent ==
    eval_results # Unset =>
        /\ Val(eval_results).passed = correct
        /\ Val(eval_results).total_tests = 11
        /\ Val(eval_results).target = 90
        /\ Val(eval_results).accuracy = Val(accuracy)
        /\ Val(eval_results).gap = FloatSub(FloatOfNat(90), Val(eval_results).accuracy)

(***************************************************************************)
(* Claims about RAGSystem.search, the evaluator on it, and main            *)
(***************************************************************************)
\* C3: search returns at most one result whatever the query, n_results and
\* the collection: searches that differ only in n_results return the same
\* list, and the list is empty when the collection holds no chunk.
C3_AtMostOneResult ==
    /\ last_search # Unset =>
          /\ Len(Val(last_search).returned) <= 1
          /\ Val(last_search).count = 0 => Val(last_search).returned = <<>>
    /\ \A a \in seen : Len(a.results) <= 1
    /\ \A a, b \in seen :
          (a.query = b.query /\ a.version = b.version /\ a.n_results # b.n_results)
              => a.results = b.results

C3_Witness ==
    /\ last_search # Unset
    /\ Val(last_search).n_results = MaxNResults
    /\ Val(last_search).count >= 3
    /\ Val(last_search).caller = "test_specific_query"
    /\ Len(Val(last_search).returned) = 1
    /\ \E a \in seen :
          /\ a.query = Val(last_search).query
          /\ a.version = version
          /\ a.n_results = 2

\* C4: in test_accuracy(n_results=k) and test_specific_query(query,
\* n_results=k), k results are retrieved and examined for each query whenever
\* the collection holds at least k chunks.
C4_RetrievesNResults ==
    (/\ last_search # Unset
     /\ Val(last_search).caller \in {"test_accuracy", "run_evaluation", "test_specific_query"}
     /\ Val(last_search).count >= Val(last_search).n_results)
        => Len(Val(last_search).returned) = Val(last_search).n_results

\* C5: the noise of search is the same on every call (the generator is
\* re-seeded with 42): two searches for one query on the same collection
\* contents return the same list, whatever was searched in between, and two
\* runs of test_accuracy on an unchanged collection return the same accuracy.
C5_SearchIsRepeatable ==
    /\ \A a, b \in seen :
          (a.query = b.query /\ a.version = b.version) => a.results = b.results
    /\ \A a, b \in acc_seen :
          a.version = b.version => a.accuracy = b.accuracy
    /\ last_search # Unset => rng = NextRng(Seed(42))

C5_Witness ==
    /\ \E a, b \in acc_seen :
          /\ a.caller = "run_evaluation"
          /\ b.caller = "test_accuracy"
          /\ a.version = b.version
    /\ \E a, b, c \in seen :
          /\ a.caller = "run_evaluation"
          /\ b.caller = "test_accuracy"
          /\ a.query = b.query
          /\ a.version = b.version
          /\ a.results # <<>>
          /\ c.query # a.query
          /\ c.results # a.results

\* the places of the events of one kind in the log of the running operation
Places(kind) == {k \in 1..Len(events) : events[k][1] = kind}

\* C9: main processes the documents only if that is not already done: run
\* on a collection that already holds the chunks of the documents, it does
\* not chunk, embed and add them again.
C9_ProcessedOnlyOnce ==
    (op = "main" /\ held_at_start) =>
        Places("chunk") \cup Places("embed") \cup Places("add") = {}

RECURSIVE ChunksOfFiles(_, _)
\* the number of chunks of the first k files
ChunksOfFiles(files, k) ==
    IF k = 0 THEN 0
    ELSE ChunksOfFiles(files, k - 1) + CeilDiv(Len(files[k].content), 100)

\* C10: a run of main goes chunk, embed, store, query, evaluate: every chunk
\* is embedded before the single collection.add, no search is issued before
\* that add, the 11 queries complete before the accuracy is computed, and the
\* baseline file is written only after the accuracy is computed.
C10_PipelineOrder ==
    /\ Cardinality(Places("add")) <= 1
    /\ \A a \in Places("add") :
          /\ \A e \in Places("chunk") \cup Places("embed") : e < a
          /\ events[a][2] = ChunksOfFiles(docs.files, Len(docs.files))
          /\ Cardinality(Places("embed")) = events[a][2]
    /\ \A s \in Places("search") :
          /\ \A e \in Places("chunk") \cup Places("embed") \cup Places("add") : e < s
          /\ Places("embed") # {} => Places("add") # {}
    /\ \A c \in Places("accuracy") :
          /\ Cardinality(Places("search")) = 11
          /\ \A s \in Places("search") : s < c
    /\ \A w \in Places("write") :
          /\ \E c \in Places("accuracy") : c < w
          /\ written # Unset
          /\ accuracy # Unset
          /\ Val(written).value = Val(accuracy)

C10_Witness ==
    /\ op = "main"
    /\ Places("write") # {}
    /\ Places("add") # {}
    /\ Cardinality(Places("embed")) = 4
    /\ Cardinality(Places("search")) = 11
    /\ Len(store) = 4


\* C11: the IDs process_documents computes for one batch are unique: with the
\* hash injective on the string hashed, two chunks of the batch that differ
\* in file path or in chunk index have different IDs, so the batch handed to
\* collection.add holds no ID twice.
C11_BatchIdsUnique ==
    \A i, j \in 1..Len(all_ids) :
        (i # j /\ (all_metadatas[i].source # all_metadatas[j].source
                   \/ all_metadatas[i].chunk_index # all_metadatas[j].chunk_index))
            => all_ids[i] # all_ids[j]

\* C15: process_documents writes to the collection all at once or not at
\* all: collection.add is called at most once per call and only after every
\* file has been read, chunked and embedded, so when reading or embedding a
\* file raises, no step of the call has changed the collection.
C15_AllOrNothing ==
    /\ [](/\ Cardinality(Places("add")) <= 1
          /\ \A a \in Places("add") :
                /\ Cardinality(Places("chunk")) = Len(docs.files)
                /\ Cardinality(Places("embed")) = events[a][2]
                /\ \A e \in Places("chunk") \cup Places("embed") : e < a
          /\ Places("error") # {} => (mpc = "failed" /\ Places("add") = {}))
    /\ [][(mpc = "process" /\ mpc' \in {"process", "failed"})
             => (store' = store /\ version' = version)]_vars

C15_Witness ==
    /\ mpc = "failed"
    /\ Places("error") # {}
    /\ Cardinality(Places("chunk")) = 2
    /\ Cardinality(Places("embed")) >= 3
    /\ runs = 2
    /\ Len(store) = 4

(***************************************************************************)
(* Claims about complete_rag_demo.py                                       *)
(***************************************************************************)
\* the places of the entries of one kind in the log of the script
DPlaces(kind) == {k \in 1..Len(dlog) : dlog[k][1] = kind}
\* the places of the entries of one kind written by demo i
DPlacesOf(kind, i) == {k \in DPlaces(kind) : dlog[k][2] = i}

\* the IDs the collection holds, with repetitions
DemoIds == [k \in 1..Len(Val(dcoll)) |-> Val(dcoll)[k].id]

\* C12: setup_vector_database stores the chunks at most once per process:
\* after any number of calls of run_complete_rag_pipeline, the collection
\* techcorp_policies holds every chunk ID exactly once and as many records
\* as one call of load_and_chunk_documents gives chunks; before the chunks
\* are stored it is empty.
C12_StoredOnce ==
    /\ Cardinality(DPlaces("stored")) <= 1
    /\ dcoll # Unset =>
          /\ ~HasDuplicates(DemoIds)
          /\ Len(Val(dcoll)) \in {0, Len(load_and_chunk_documents)}
          /\ Len(Val(dcoll)) # 0 <=> DPlaces("stored") # {}
    /\ (dpc \in {"query", "respond"} \/ DPlaces("result") # {}) =>
          /\ dcoll # Unset
          /\ Len(Val(dcoll)) = Len(load_and_chunk_documents)
          /\ \A c \in 1..Len(load_and_chunk_documents) :
                Cardinality({k \in 1..Len(Val(dcoll)) :
                                Val(dcoll)[k].id = load_and_chunk_documents[c].id}) = 1

C12_Witness ==
    /\ dpc = "done"
    /\ Cardinality(DPlaces("result")) = Len(test_queries)
    /\ DPlacesOf("stored", 1) # {}
    /\ Len(Val(dcoll)) = 13

\* the outcome of demo i in the log: its result or its error report
OutcomesOf(i) == DPlacesOf("result", i) \cup DPlacesOf("error", i)

\* the log of the main loop is well-formed up to the demo the loop is at
DemoLogInOrder ==
    /\ \A i \in 1..Len(test_queries) :
          /\ Cardinality(DPlacesOf("demo", i)) = (IF i <= di THEN 1 ELSE 0)
          /\ Cardinality(OutcomesOf(i)) <= 1
          /\ \A o \in OutcomesOf(i) : \A h \in DPlacesOf("demo", i) : h < o
          \* demo i + 1 starts only after demo i has ended, with a result
          \* or with a reported error, and after the prompt
          /\ i < Len(test_queries) =>
                \A h \in DPlacesOf("demo", i + 1) :
                    /\ \E o \in OutcomesOf(i) : o < h
                    /\ \E p \in DPlacesOf("prompt", i) :
                          /\ p < h
                          /\ \A o \in OutcomesOf(i) : o < p
          /\ Cardinality(DPlacesOf("prompt", i)) <= 1
          /\ \A p \in DPlacesOf("prompt", i) : OutcomesOf(i) # {}
    /\ DPlacesOf("prompt", Len(test_queries)) = {}
    /\ \A c \in DPlaces("completed") :
          /\ c = Len(dlog)
          /\ \A i \in 1..Len(test_queries) : OutcomesOf(i) # {}
          /\ \A i \in 1..(Len(test_queries) - 1) : DPlacesOf("prompt", i) # {}

\* C13: the main loop runs the demo of each of the 5 test queries in order
\* and isolates failures: an exception of run_complete_rag_pipeline is
\* reported and the following demos still run; the prompt comes after every
\* demo but the last; "All demos completed" is reached whether or not a demo
\* failed.
C13_FailuresIsolated ==
    /\ []DemoLogInOrder
    /\ [](dpc \in {"loop", "load", "setup", "store", "query", "respond", "after", "done"})
    /\ \A i \in 1..Len(test_queries) :
          (DPlacesOf("error", i) # {})
              ~> (/\ dpc = "done"
                  /\ \A j \in (i + 1)..Len(test_queries) :
                        DPlacesOf("demo", j) # {} /\ OutcomesOf(j) # {})
    /\ <>(dpc = "done" /\ DPlaces("completed") # {})

C13_Witness ==
    /\ dpc = "done"
    /\ DPlaces("completed") # {}
    /\ DPlacesOf("error", 1) # {}
    /\ DPlacesOf("result", 2) # {}
    /\ DPlacesOf("error", 4) # {}
    /\ DPlacesOf("result", 5) # {}
    /\ Cardinality(DPlaces("prompt")) = 4

(***************************************************************************)
(* Claims about check_persistence.py                                       *)
(***************************************************************************)
\* a step of the check script
CheckStep ==
    \/ kpc = "idle" /\ kpc' = "check_connected"
    \/ kpc \in {"check_connected", "check_counted"}

\* C14: check_persistence.py adds nothing to the database: whatever state
\* the persistent store is in, the collection techcorp_docs, its document
\* count and its documents are after a run what they were before it, and
\* every run of the script prints the same count.
C14_CheckAddsNothing ==
    /\ [][CheckStep => pdb' = pdb]_vars
    /\ [](\A i, j \in 1..Len(printed) : printed[i] = printed[j])
====
